---- MODULE Spec2Model ----
(***************************************************************************)
(* dict-tui: the incremental search-and-cache core.                        *)
(*   src/src/dictionary.rs  DictionaryStore (corpus, search, resolver)     *)
(*   src/src/cache.rs       QueryResultCache, DefinitionCache              *)
(* Strings are sequences of code points (32 = ' ', 65..90 = 'A'..'Z',      *)
(* 97..122 = 'a'..'z'); entry indices are 0-based as in the source.        *)
(***************************************************************************)
EXTENDS Integers, Sequences, FiniteSets, TLC

VARIABLES entries, sources, qmap, qorder, qcapacity, dmap, dorder, dcapacity,
          call, qnew, dnew, load, state, event, answered

vars == <<entries, sources, qmap, qorder, qcapacity, dmap, dorder, dcapacity,
          call, qnew, dnew, load, state, event, answered>>

\* ------------------------------------------------------------------ bounds
MaxEntries == 2
MaxWordLen == 3
MaxRawLen == 2
QCap == 2
DCap == 1
MaxFiles == 2
MaxKeywords == 1

\* ------------------------------------------------------------------ strings
\* Option<Vec<usize>>
None == [some |-> FALSE, v |-> <<>>]

Some(v) == [some |-> TRUE, v |-> v]

WordChars == {97, 98}
RawChars == {32, 66, 97}

StringsOver(chars, maxLen) == UNION {[1..n -> chars] : n \in 0..maxLen}

is_whitespace(c) == c = 32

to_lowercase_char(c) == IF c \in 65..90 THEN c + 32 ELSE c

to_lowercase(s) == [i \in 1..Len(s) |-> to_lowercase_char(s[i])]

RECURSIVE trim_start(_)
trim_start(s) ==
    IF s # <<>> /\ is_whitespace(Head(s)) THEN trim_start(Tail(s)) ELSE s

RECURSIVE trim_end(_)
trim_end(s) ==
    IF s # <<>> /\ is_whitespace(s[Len(s)])
    THEN trim_end(SubSeq(s, 1, Len(s) - 1))
    ELSE s

trim(s) == trim_end(trim_start(s))

starts_with(s, needle) ==
    Len(needle) <= Len(s) /\ SubSeq(s, 1, Len(needle)) = needle

contains(s, needle) ==
    \E i \in 0..(Len(s) - Len(needle)) : SubSeq(s, i + 1, i + Len(needle)) = needle

\* String::cmp: lexicographic on code points, a proper prefix sorts first.
RECURSIVE str_less(_, _)
str_less(a, b) ==
    IF b = <<>> THEN FALSE
    ELSE IF a = <<>> THEN TRUE
    ELSE IF Head(a) # Head(b) THEN Head(a) < Head(b)
    ELSE str_less(Tail(a), Tail(b))

str_le(a, b) == a = b \/ str_less(a, b)

\* ------------------------------------------------------------------ corpus
Entry(word, d, k) ==
    [word |-> word, word_lower |-> to_lowercase(word), dict_idx |-> d, keyword_idx |-> k]

EntryAt(index) == entries[index + 1]

Indexes == 0..(Len(entries) - 1)

IsSorted(ws) == \A i \in 1..Len(ws), j \in 1..Len(ws) : i < j => str_le(ws[i], ws[j])

\* ------------------------------------------------------------------ Match Engine
\* Mutant: the prefix test made before the exact test.
Tier_prefix_first(word_lower, needle) ==
    IF starts_with(word_lower, needle) THEN "prefix"
    ELSE IF word_lower = needle THEN "exact"
    ELSE IF contains(word_lower, needle) THEN "contains"
    ELSE "none"

Tier(word_lower, needle) ==
    IF word_lower = needle THEN "exact"
    ELSE IF starts_with(word_lower, needle) THEN "prefix"
    ELSE IF contains(word_lower, needle) THEN "contains"
    ELSE "none"

\* Mutant: the narrowed scan starts at the second candidate.
ScanOrder_skip_first(candidates) ==
    IF candidates.some
    THEN (IF candidates.v = <<>> THEN <<>> ELSE Tail(candidates.v))
    ELSE [i \in 1..Len(entries) |-> i - 1]

ScanOrder(candidates) ==
    IF candidates.some THEN candidates.v ELSE [i \in 1..Len(entries) |-> i - 1]

\* Mutant: each match put in front of its tier's list.
TierOf_push_front(scan, needle, tier) ==
    LET kept == SelectSeq(scan, LAMBDA index : Tier(EntryAt(index).word_lower, needle) = tier)
    IN  [i \in 1..Len(kept) |-> kept[Len(kept) + 1 - i]]

TierOf(scan, needle, tier) ==
    SelectSeq(scan, LAMBDA index : Tier(EntryAt(index).word_lower, needle) = tier)

\* Mutant: the prefix test made without else, so that an exact match is
\* pushed to the prefix tier too.
search_exact_also_prefix(needle, candidates) ==
    IF needle = <<>> THEN <<>>
    ELSE LET scan == ScanOrder(candidates)
         IN  TierOf(scan, needle, "exact")
                 \o SelectSeq(scan, LAMBDA index :
                                       starts_with(EntryAt(index).word_lower, needle))
                 \o TierOf(scan, needle, "contains")

\* Mutant: the tiers merged prefix first.
search_prefix_first(needle, candidates) ==
    IF needle = <<>> THEN <<>>
    ELSE LET scan == ScanOrder(candidates)
         IN  TierOf(scan, needle, "prefix") \o TierOf(scan, needle, "exact")
                 \o TierOf(scan, needle, "contains")

search(needle, candidates) ==
    IF needle = <<>> THEN <<>>
    ELSE LET scan == ScanOrder(candidates)
         IN  TierOf(scan, needle, "exact") \o TierOf(scan, needle, "prefix")
                 \o TierOf(scan, needle, "contains")

\* ------------------------------------------------------------------ QueryResultCache
\* Mutant: the query lowercased but not trimmed.
normalize_no_trim(query) == to_lowercase(query)

\* Mutant: the query trimmed but not lowercased.
normalize_no_lowercase(query) == trim(query)

normalize(query) == to_lowercase(trim(query))

\* The walk of needle.char_indices().rev(): prefixes of length idx = n-1, ..., 1.
RECURSIVE find_prefix_from(_, _, _)
find_prefix_from(map, needle, idx) ==
    IF idx <= 0 THEN None
    ELSE IF SubSeq(needle, 1, idx) \in DOMAIN map THEN Some(map[SubSeq(needle, 1, idx)])
    ELSE find_prefix_from(map, needle, idx - 1)

\* Mutant: the walk from the shortest prefix up.
find_shortest_prefix_result(map, needle) ==
    LET cached == {idx \in 1..(Len(needle) - 1) : SubSeq(needle, 1, idx) \in DOMAIN map} IN
    IF cached = {} THEN None
    ELSE Some(map[SubSeq(needle, 1, CHOOSE idx \in cached : \A other \in cached : idx <= other)])

find_longest_prefix_result(map, needle) ==
    find_prefix_from(map, needle, Len(needle) - 1)

MapPut(map, key, value) ==
    [k \in DOMAIN map \cup {key} |-> IF k = key THEN value ELSE map[k]]

MapRemove(map, key) == [k \in DOMAIN map \ {key} |-> map[k]]

\* Mutant: eviction starts one key late (order.len() > capacity + 1).
RECURSIVE evict_late(_, _, _)
evict_late(map, order, capacity) ==
    IF Len(order) > capacity + 1
    THEN evict_late(MapRemove(map, Head(order)), Tail(order), capacity)
    ELSE [map |-> map, order |-> order]

\* Mutant: eviction pops the key in front of the newest.
evict_second_newest(map, order, capacity) ==
    IF Len(order) > capacity /\ Len(order) >= 2
    THEN [map |-> MapRemove(map, order[Len(order) - 1]),
          order |-> SubSeq(order, 1, Len(order) - 2) \o <<order[Len(order)]>>]
    ELSE [map |-> map, order |-> order]

\* Mutant: eviction pops the newest key (pop_back).
RECURSIVE evict_newest(_, _, _)
evict_newest(map, order, capacity) ==
    IF Len(order) > capacity
    THEN evict_newest(MapRemove(map, order[Len(order)]),
                      SubSeq(order, 1, Len(order) - 1), capacity)
    ELSE [map |-> map, order |-> order]

\* while self.order.len() > self.capacity { pop_front; map.remove }
RECURSIVE evict(_, _, _)
evict(map, order, capacity) ==
    IF Len(order) > capacity
    THEN evict(MapRemove(map, Head(order)), Tail(order), capacity)
    ELSE [map |-> map, order |-> order]

\* Mutant: a full cache makes room for a new key and then does not store it.
QueryResultCache_insert_full_drops_new(map, order, capacity, key, value) ==
    IF key \in DOMAIN map
    THEN [map |-> MapPut(map, key, value), order |-> order]
    ELSE IF Len(order) >= capacity /\ order # <<>>
    THEN [map |-> MapRemove(map, Head(order)), order |-> Tail(order)]
    ELSE evict(MapPut(map, key, value), Append(order, key), capacity)

\* Mutant: an overwrite moves the key to the back of the eviction queue.
QueryResultCache_insert_move_to_back(map, order, capacity, key, value) ==
    IF key \in DOMAIN map
    THEN [map |-> MapPut(map, key, value),
          order |-> Append(SelectSeq(order, LAMBDA k : k # key), key)]
    ELSE evict(MapPut(map, key, value), Append(order, key), capacity)

QueryResultCache_insert(map, order, capacity, key, value) ==
    IF key \in DOMAIN map
    THEN [map |-> MapPut(map, key, value), order |-> order]
    ELSE evict(MapPut(map, key, value), Append(order, key), capacity)

\* Mutant: a hit moves the key to the back of the eviction queue (LRU).
query_touch_on_hit(map, order, capacity, raw) ==
    LET needle == normalize(raw) IN
    IF needle = <<>>
    THEN [result |-> <<>>, map |-> map, order |-> order, path |-> "empty"]
    ELSE IF needle \in DOMAIN map
    THEN [result |-> map[needle], map |-> map,
          order |-> Append(SelectSeq(order, LAMBDA k : k # needle), needle),
          path |-> "hit"]
    ELSE LET cached_prefix_result == find_longest_prefix_result(map, needle)
             result == search(needle, cached_prefix_result)
             after == QueryResultCache_insert(map, order, capacity, needle, result)
         IN  [result |-> result, map |-> after.map, order |-> after.order,
              path |-> IF cached_prefix_result.some THEN "narrowed" ELSE "full"]

\* QueryResultCache::query as a function of the cache and the raw query.
query(map, order, capacity, raw) ==
    LET needle == normalize(raw) IN
    IF needle = <<>>
    THEN [result |-> <<>>, map |-> map, order |-> order, path |-> "empty"]
    ELSE IF needle \in DOMAIN map
    THEN [result |-> map[needle], map |-> map, order |-> order, path |-> "hit"]
    ELSE LET cached_prefix_result == find_longest_prefix_result(map, needle)
             result == search(needle, cached_prefix_result)
             after == QueryResultCache_insert(map, order, capacity, needle, result)
         IN  [result |-> result, map |-> after.map, order |-> after.order,
              path |-> IF cached_prefix_result.some THEN "narrowed" ELSE "full"]

\* Record of the list each needle got the first time it was asked; off in
\* sessions that start without it.
NotAnswered == [on |-> FALSE, lists |-> <<>>]

NoAnswers == [on |-> TRUE, lists |-> <<>>]

\* Record of the keys inserted as new keys since construction, kept while at
\* most capacity + 1 of them have been inserted (NotRecorded from then on, and
\* in sessions that start without the record).
NotRecorded(capacity) == [n |-> capacity + 2, keys |-> <<>>]

NoteNew(new, capacity, key) ==
    IF new.n >= capacity + 1
    THEN NotRecorded(capacity)
    ELSE [n |-> new.n + 1, keys |-> Append(new.keys, key)]

NoCall == [op |-> "none", raw |-> <<>>, idx |-> 0, path |-> "none",
           result |-> <<>>, status |-> "none", text |-> "", fetches |-> 0,
           prev_idx |-> -1, prev_text |-> ""]

RawQueries == StringsOver(RawChars, MaxRawLen)

Query(raw) ==
    \E r \in {query(qmap, qorder, qcapacity, raw)} :
    /\ qmap' = r.map
    /\ qorder' = r.order
    /\ qnew' = IF r.path \in {"full", "narrowed"}
               THEN NoteNew(qnew, qcapacity, normalize(raw)) ELSE qnew
    /\ call' = [NoCall EXCEPT !.op = "query", !.raw = raw, !.path = r.path,
                              !.result = r.result]
    /\ answered' = IF answered.on /\ r.path # "empty"
                                  /\ normalize(raw) \notin DOMAIN answered.lists
                    THEN [answered EXCEPT !.lists = MapPut(@, normalize(raw), r.result)]
                    ELSE answered
    /\ UNCHANGED <<entries, sources, qcapacity, dmap, dorder, dcapacity, dnew, load, state, event>>

\* ------------------------------------------------------------------ resolver
\* A source is its keyword list; a keyword is [key_text, definition], the
\* definition being what mdx.fetch yields for it (NoContent: fetch is None).
NoContent == "NoContent"

Keyword(key_text, definition) == [key_text |-> key_text, definition |-> definition]

Ok(text) == [status |-> "Ok", text |-> text]

Err(kind) == [status |-> kind, text |-> ""]

fetch_definition(entry_idx) ==
    IF entry_idx \notin Indexes THEN Err("InvalidEntryIndex")
    ELSE LET entry == EntryAt(entry_idx) IN
         IF entry.dict_idx \notin 0..(Len(sources) - 1) THEN Err("InvalidDictIndex")
         ELSE LET keywords == sources[entry.dict_idx + 1] IN
              IF entry.keyword_idx \notin 0..(Len(keywords) - 1)
              THEN Err("InvalidKeywordIndex")
              ELSE IF keywords[entry.keyword_idx + 1].definition = NoContent
              THEN Err("NoContent")
              ELSE Ok(keywords[entry.keyword_idx + 1].definition)

\* ------------------------------------------------------------------ DefinitionCache
\* Mutant: the cache keyed by the entry index.
DefinitionKey_by_entry_index(entry_idx) ==
    [dict_idx |-> entry_idx, keyword_idx |-> entry_idx]

\* Mutant: the key holds the keyword index only.
DefinitionKey_keyword_only(entry_idx) ==
    [dict_idx |-> 0, keyword_idx |-> EntryAt(entry_idx).keyword_idx]

DefinitionKey(entry_idx) ==
    [dict_idx |-> EntryAt(entry_idx).dict_idx,
     keyword_idx |-> EntryAt(entry_idx).keyword_idx]

\* Mutant: the key pushed to the queue on every insert, present or not.
DefinitionCache_insert_always_push(map, order, capacity, key, value) ==
    evict(MapPut(map, key, value), Append(order, key), capacity)

DefinitionCache_insert(map, order, capacity, key, value) ==
    IF key \in DOMAIN map
    THEN [map |-> MapPut(map, key, value), order |-> order]
    ELSE evict(MapPut(map, key, value), Append(order, key), capacity)

\* Mutant: the resolver asked before the entry index is checked.
get_or_load_fetch_before_check(map, order, capacity, entry_idx) ==
    IF entry_idx \notin Indexes
    THEN [status |-> fetch_definition(entry_idx).status, text |-> "", map |-> map,
          order |-> order, path |-> "invalid", fetches |-> 1]
    ELSE LET key == DefinitionKey(entry_idx) IN
         IF key \in DOMAIN map
         THEN [status |-> "Ok", text |-> map[key], map |-> map, order |-> order,
               path |-> "hit", fetches |-> 0]
         ELSE LET definition == fetch_definition(entry_idx) IN
              IF definition.status # "Ok"
              THEN [status |-> definition.status, text |-> "", map |-> map,
                    order |-> order, path |-> "failed", fetches |-> 1]
              ELSE LET after == DefinitionCache_insert(map, order, capacity, key,
                                                       definition.text)
                   IN  [status |-> "Ok", text |-> definition.text, map |-> after.map,
                        order |-> after.order, path |-> "loaded", fetches |-> 1]

\* Mutant: a failed load is cached as an empty definition.
get_or_load_caches_failure(map, order, capacity, entry_idx) ==
    IF entry_idx \notin Indexes
    THEN [status |-> "InvalidEntryIndex", text |-> "", map |-> map, order |-> order,
          path |-> "invalid", fetches |-> 0]
    ELSE LET key == DefinitionKey(entry_idx) IN
         IF key \in DOMAIN map
         THEN [status |-> "Ok", text |-> map[key], map |-> map, order |-> order,
               path |-> "hit", fetches |-> 0]
         ELSE LET definition == fetch_definition(entry_idx)
                  after == DefinitionCache_insert(map, order, capacity, key,
                                                  definition.text)
              IN  [status |-> definition.status, text |-> definition.text,
                   map |-> after.map, order |-> after.order,
                   path |-> IF definition.status = "Ok" THEN "loaded" ELSE "failed",
                   fetches |-> 1]

\* DefinitionCache::get_or_load as a function of the cache and the entry index;
\* fetches counts the calls of fetch_definition it makes.
get_or_load(map, order, capacity, entry_idx) ==
    IF entry_idx \notin Indexes
    THEN [status |-> "InvalidEntryIndex", text |-> "", map |-> map, order |-> order,
          path |-> "invalid", fetches |-> 0]
    ELSE LET key == DefinitionKey(entry_idx) IN
         IF key \in DOMAIN map
         THEN [status |-> "Ok", text |-> map[key], map |-> map, order |-> order,
               path |-> "hit", fetches |-> 0]
         ELSE LET definition == fetch_definition(entry_idx) IN
              IF definition.status # "Ok"
              THEN [status |-> definition.status, text |-> "", map |-> map,
                    order |-> order, path |-> "failed", fetches |-> 1]
              ELSE LET after == DefinitionCache_insert(map, order, capacity, key,
                                                       definition.text)
                   IN  [status |-> "Ok", text |-> definition.text, map |-> after.map,
                        order |-> after.order, path |-> "loaded", fetches |-> 1]

GetOrLoad(entry_idx) ==
    \E r \in {get_or_load(dmap, dorder, dcapacity, entry_idx)} :
    /\ dmap' = r.map
    /\ dorder' = r.order
    /\ dnew' = IF r.path = "loaded"
               THEN NoteNew(dnew, dcapacity, DefinitionKey(entry_idx)) ELSE dnew
    /\ call' = [NoCall EXCEPT !.op = "get_or_load", !.idx = entry_idx, !.path = r.path,
                              !.status = r.status, !.text = r.text, !.fetches = r.fetches,
                              !.prev_idx = IF call.op = "get_or_load" /\ call.status = "Ok"
                                           THEN call.idx ELSE -1,
                              !.prev_text = IF call.op = "get_or_load" /\ call.status = "Ok"
                                            THEN call.text ELSE ""]
    /\ UNCHANGED <<entries, sources, qmap, qorder, qcapacity, qnew, dcapacity, load, state, event,
                   answered>>

\* ------------------------------------------------------------------ corpus loading
\* A directory is the sorted list of its .mdx files; a file either fails to
\* open (Mdx::new) or yields its keyword list.
FailedFile == [opened |-> FALSE, keywords |-> <<>>]

OpenedFile(keywords) == [opened |-> TRUE, keywords |-> keywords]

RECURSIVE load_entries(_, _)
load_entries(keywords, idx) ==
    IF idx > Len(keywords) THEN <<>>
    ELSE LET word == trim(keywords[idx].key_text) IN
         IF word = <<>> THEN load_entries(keywords, idx + 1)
         ELSE <<Entry(word, 0, idx - 1)>> \o load_entries(keywords, idx + 1)

load_single_mdx(file) ==
    IF file.opened
    THEN [ok |-> TRUE, source |-> file.keywords, entries |-> load_entries(file.keywords, 1)]
    ELSE [ok |-> FALSE, source |-> <<>>, entries |-> <<>>]

\* Mutant: the entries left in load order.
sort_omitted(es) == es

\* Vec::sort_by is a stable sort: insertion after the last element not greater.
RECURSIVE sort_by_word_lower(_)
sort_by_word_lower(es) ==
    IF es = <<>> THEN <<>>
    ELSE LET n == Len(es)
             sorted == sort_by_word_lower(SubSeq(es, 1, n - 1))
             x == es[n]
             keep == {i \in 1..Len(sorted) : str_le(sorted[i].word_lower, x.word_lower)}
             at == IF keep = {} THEN 0 ELSE CHOOSE i \in keep : \A j \in keep : j <= i
         IN  SubSeq(sorted, 1, at) \o <<x>> \o SubSeq(sorted, at + 1, Len(sorted))

\* Mutant: dict_idx taken from the file's position in the directory listing.
RECURSIVE load_files_index_by_file(_, _, _)
load_files_index_by_file(files, i, acc) ==
    IF i > Len(files) THEN acc
    ELSE LET source_index == i - 1
             loaded == load_single_mdx(files[i])
         IN  IF loaded.ok
             THEN load_files_index_by_file(files, i + 1,
                    [acc EXCEPT
                       !.entries = @ \o [j \in 1..Len(loaded.entries) |->
                                           [loaded.entries[j] EXCEPT !.dict_idx = source_index]],
                       !.sources = Append(@, loaded.source)])
             ELSE load_files_index_by_file(files, i + 1,
                                           [acc EXCEPT !.load_errors = Append(@, i)])

RECURSIVE load_files(_, _, _)
load_files(files, i, acc) ==
    IF i > Len(files) THEN acc
    ELSE LET source_index == Len(acc.sources)
             loaded == load_single_mdx(files[i])
         IN  IF loaded.ok
             THEN load_files(files, i + 1,
                    [acc EXCEPT
                       !.entries = @ \o [j \in 1..Len(loaded.entries) |->
                                           [loaded.entries[j] EXCEPT !.dict_idx = source_index]],
                       !.sources = Append(@, loaded.source)])
             ELSE load_files(files, i + 1, [acc EXCEPT !.load_errors = Append(@, i)])

\* Mutant: the first source that fails to open fails the load.
load_from_dir_fail_fast(files) ==
    IF files = <<>> THEN [status |-> "NoMdxFiles", entries |-> <<>>, sources |-> <<>>,
                          load_errors |-> <<>>]
    ELSE LET acc == load_files(files, 1,
                        [entries |-> <<>>, sources |-> <<>>, load_errors |-> <<>>])
         IN  IF acc.load_errors # <<>>
             THEN [status |-> "AllSourcesFailed", entries |-> <<>>, sources |-> <<>>,
                   load_errors |-> acc.load_errors]
             ELSE IF acc.entries = <<>>
             THEN [status |-> "NoUsableEntries", entries |-> <<>>, sources |-> <<>>,
                   load_errors |-> <<>>]
             ELSE [status |-> "Ok", entries |-> sort_by_word_lower(acc.entries),
                   sources |-> acc.sources, load_errors |-> <<>>]

load_from_dir(files) ==
    IF files = <<>> THEN [status |-> "NoMdxFiles", entries |-> <<>>, sources |-> <<>>,
                          load_errors |-> <<>>]
    ELSE LET acc == load_files(files, 1,
                        [entries |-> <<>>, sources |-> <<>>, load_errors |-> <<>>])
         IN  IF acc.entries = <<>>
             THEN [status |-> IF acc.load_errors = <<>> THEN "NoUsableEntries"
                                                       ELSE "AllSourcesFailed",
                   entries |-> <<>>, sources |-> <<>>, load_errors |-> acc.load_errors]
             ELSE [status |-> "Ok", entries |-> sort_by_word_lower(acc.entries),
                   sources |-> acc.sources, load_errors |-> acc.load_errors]

\* ------------------------------------------------------------------ SearchState
PAGE_STEP == 10

DETAIL_SCROLL_STEP == 3

\* Option<usize>::None
NoEntry == -1

\* The detail pane's text, by what it is made from.
PromptText == [kind |-> "Prompt", entry |-> NoEntry, body |-> <<>>]

NoMatchText == [kind |-> "NoMatch", entry |-> NoEntry, body |-> <<>>]

ErrorText(err) == [kind |-> "Error", entry |-> NoEntry, body |-> <<"err", err>>]

\* html_to_plain_text(definition), or the placeholder for an empty one.
text_body(definition) == <<"plain", definition>>

DefinitionText(entry_idx, definition) ==
    [kind |-> "Definition", entry |-> entry_idx, body |-> text_body(definition)]

\* word, source line, blank line and a one-line body; one line otherwise.
count_lines(text) == IF text.kind = "Definition" THEN 4 ELSE 1

SearchState_default ==
    [query |-> <<>>, result_indexes |-> <<>>, selected |-> 0,
     detail_text |-> PromptText, detail_entry_idx |-> NoEntry, detail_scroll |-> 0,
     detail_line_count |-> count_lines(PromptText), status_text |-> "none"]

\* Mutant: a subtraction that goes below zero.
signed_sub(a, b) == a - b

saturating_sub(a, b) == IF a >= b THEN a - b ELSE 0

min(a, b) == IF a <= b THEN a ELSE b

\* The query result r already obtained from the cache.
update_results(st, r) ==
    [st EXCEPT !.result_indexes = r.result,
               !.selected = IF r.result = <<>> THEN 0
                            ELSE IF @ >= Len(r.result) THEN Len(r.result) - 1 ELSE @,
               !.detail_entry_idx = NoEntry,
               !.detail_scroll = 0]

selected_entry_index(st) ==
    IF st.result_indexes = <<>> THEN NoEntry ELSE st.result_indexes[st.selected + 1]

ShowText(st, text, entry_idx) ==
    [st EXCEPT !.detail_text = text, !.detail_entry_idx = entry_idx,
               !.detail_scroll = 0, !.detail_line_count = count_lines(text)]

NoDefinitionCall(st, map, order) ==
    [state |-> st, idx |-> NoEntry, status |-> "none", text |-> "", fetches |-> 0,
     map |-> map, order |-> order]

\* Mutant: a failed load leaves the detail pane as it was.
refresh_detail_ignores_error(st, map, order, capacity) ==
    IF trim(st.query) = <<>> THEN NoDefinitionCall(ShowText(st, PromptText, NoEntry), map, order)
    ELSE LET entry_idx == selected_entry_index(st) IN
         IF entry_idx = NoEntry
         THEN NoDefinitionCall(ShowText(st, NoMatchText, NoEntry), map, order)
         ELSE IF st.detail_entry_idx = entry_idx THEN NoDefinitionCall(st, map, order)
         ELSE LET r == get_or_load(map, order, capacity, entry_idx) IN
              [state |-> IF r.status = "Ok"
                         THEN ShowText(st, DefinitionText(entry_idx, r.text), entry_idx)
                         ELSE st,
               idx |-> entry_idx, status |-> r.status, text |-> r.text,
               fetches |-> r.fetches, map |-> r.map, order |-> r.order]

refresh_detail(st, map, order, capacity) ==
    IF trim(st.query) = <<>> THEN NoDefinitionCall(ShowText(st, PromptText, NoEntry), map, order)
    ELSE LET entry_idx == selected_entry_index(st) IN
         IF entry_idx = NoEntry
         THEN NoDefinitionCall(ShowText(st, NoMatchText, NoEntry), map, order)
         ELSE IF st.detail_entry_idx = entry_idx THEN NoDefinitionCall(st, map, order)
         ELSE LET r == get_or_load(map, order, capacity, entry_idx) IN
              [state |-> IF r.status = "Ok"
                         THEN ShowText(st, DefinitionText(entry_idx, r.text), entry_idx)
                         ELSE ShowText(st, ErrorText(r.status), NoEntry),
               idx |-> entry_idx, status |-> r.status, text |-> r.text,
               fetches |-> r.fetches, map |-> r.map, order |-> r.order]

scroll_detail_up(st) ==
    [st EXCEPT !.detail_scroll = saturating_sub(@, DETAIL_SCROLL_STEP)]

scroll_detail_down(st) ==
    [st EXCEPT !.detail_scroll =
                  min(@ + DETAIL_SCROLL_STEP, saturating_sub(st.detail_line_count, 1))]

\* The loader's frame: the directory listing it was given, how it ended and
\* the sources it skipped; NoLoad once a session runs on the store.
NoLoad == [mdx_files |-> <<>>, status |-> "none", load_errors |-> <<>>]

\* ------------------------------------------------------------------ search session
Words == StringsOver(WordChars, MaxWordLen) \ {<<>>}

SortedWordLists ==
    {ws \in UNION {[1..n -> Words] : n \in 1..MaxEntries} : IsSorted(ws)}

\* One source whose keyword list is ws, every keyword with a definition.
SingleSourceStore(ws) ==
    [entries |-> [i \in 1..Len(ws) |-> Entry(ws[i], 0, i - 1)],
     sources |-> <<[i \in 1..Len(ws) |-> Keyword(ws[i], "t1")]>>]

EmptyMap == [k \in {} |-> <<>>]

NoNew == [n |-> 0, keys |-> <<>>]

InitCaches ==
    /\ qmap = EmptyMap /\ qorder = <<>> /\ qcapacity = QCap
    /\ dmap = EmptyMap /\ dorder = <<>> /\ dcapacity = DCap
    /\ call = NoCall
    /\ load = NoLoad
    /\ state = SearchState_default /\ event = "none"

SearchInit ==
    /\ \E ws \in SortedWordLists :
          /\ entries = SingleSourceStore(ws).entries
          /\ sources = SingleSourceStore(ws).sources
    /\ InitCaches
    /\ qnew = NotRecorded(QCap) /\ dnew = NotRecorded(DCap)
    /\ answered = NotAnswered

SearchNext == \E raw \in RawQueries : Query(raw)

SearchSpec == SearchInit /\ [][SearchNext]_vars

\* ------------------------------------------------------------------ history session
\* The search session with the first answer to each needle kept on record.
HistoryInit ==
    /\ \E ws \in SortedWordLists :
          /\ entries = SingleSourceStore(ws).entries
          /\ sources = SingleSourceStore(ws).sources
    /\ InitCaches
    /\ qnew = NotRecorded(QCap) /\ dnew = NotRecorded(DCap)
    /\ answered = NoAnswers

HistoryNext == \E raw \in RawQueries : Query(raw)

HistorySpec == HistoryInit /\ [][HistoryNext]_vars

\* ------------------------------------------------------------------ prefix session
\* Queries one character longer than RawQueries holds, typed on the way to
\* "aba" or "abb", against a cache one key larger, so that a needle can have
\* two proper prefixes cached at once.
PrefixQueries ==
    {q \in StringsOver(WordChars, MaxRawLen + 1) :
        q # <<>> /\ (starts_with(<<97, 98, 97>>, q) \/ starts_with(<<97, 98, 98>>, q))}

PrefixInit ==
    /\ \E ws \in SortedWordLists :
          /\ entries = SingleSourceStore(ws).entries
          /\ sources = SingleSourceStore(ws).sources
    /\ qmap = EmptyMap /\ qorder = <<>> /\ qcapacity = QCap + 1
    /\ dmap = EmptyMap /\ dorder = <<>> /\ dcapacity = DCap
    /\ call = NoCall
    /\ load = NoLoad
    /\ state = SearchState_default /\ event = "none"
    /\ qnew = NotRecorded(QCap + 1) /\ dnew = NotRecorded(DCap)
    /\ answered = NotAnswered

PrefixNext == \E raw \in PrefixQueries : Query(raw)

PrefixSpec == PrefixInit /\ [][PrefixNext]_vars

\* ------------------------------------------------------------------ example session
\* The corpus cat, category, scatter at indices 0, 1, 2 and the queries a
\* user types on the way to "cate" or "scat", some with blanks or capitals.
cat == <<99, 97, 116>>

cate == <<99, 97, 116, 101>>

category == <<99, 97, 116, 101, 103, 111, 114, 121>>

scatter == <<115, 99, 97, 116, 116, 101, 114>>

Prefixes(w) == {SubSeq(w, 1, n) : n \in 1..Len(w)}

ExampleQueries ==
    Prefixes(cate) \cup Prefixes(<<115, 99, 97, 116>>)
        \cup {<<67, 65, 84>>, <<32>> \o cat \o <<32>>, <<>>}

ExampleInit ==
    /\ entries = SingleSourceStore(<<cat, category, scatter>>).entries
    /\ sources = SingleSourceStore(<<cat, category, scatter>>).sources
    /\ InitCaches
    /\ qnew = NotRecorded(QCap) /\ dnew = NotRecorded(DCap)
    /\ answered = NotAnswered

ExampleNext == \E raw \in ExampleQueries : Query(raw)

ExampleSpec == ExampleInit /\ [][ExampleNext]_vars

\* ------------------------------------------------------------------ session
KeyTexts == {<<32>>, <<66>>, <<97, 32>>}

Definitions == {"t1", NoContent}

Keywords == {Keyword(t, d) : t \in KeyTexts, d \in Definitions}

MdxFiles ==
    {FailedFile} \cup {OpenedFile(ks) : ks \in UNION {[1..n -> Keywords] : n \in 0..MaxKeywords}}

MdxDirs == UNION {[1..n -> MdxFiles] : n \in 1..MaxFiles}

\* ------------------------------------------------------------------ event loop
\* run_dynamic_search: one action per arm of the key match.  event is the last
\* event the loop took; call holds the cache calls its handler made.
ExitKeys == {"Esc", "CtrlC", "IoError"}

Running == event \notin ExitKeys

TypedChars == RawChars

NoQueryCall == [raw |-> <<>>, path |-> "none", result |-> <<>>, map |-> qmap, order |-> qorder]

Handled(code, st, q, d) ==
    /\ Running
    /\ event' = code
    /\ state' = st
    /\ qmap' = q.map /\ qorder' = q.order
    /\ dmap' = d.map /\ dorder' = d.order
    /\ call' = [NoCall EXCEPT !.op = "key", !.raw = q.raw, !.path = q.path,
                              !.result = q.result, !.idx = d.idx, !.status = d.status,
                              !.text = d.text, !.fetches = d.fetches]
    /\ UNCHANGED <<entries, sources, qcapacity, dcapacity, qnew, dnew, load, answered>>

Refreshed(code, st) ==
    \E d \in {refresh_detail(st, dmap, dorder, dcapacity)} :
        Handled(code, d.state, NoQueryCall, d)

Requeried(code, st) ==
    \E r \in {query(qmap, qorder, qcapacity, st.query)} :
    \E d \in {refresh_detail(update_results(st, r), dmap, dorder, dcapacity)} :
        Handled(code, d.state,
                [raw |-> st.query, path |-> r.path, result |-> r.result,
                 map |-> r.map, order |-> r.order], d)

Unchanged(code, st) == Handled(code, st, NoQueryCall, NoDefinitionCall(st, dmap, dorder))

\* Esc, Ctrl-C, or draw / poll / read failing: the loop is left.
Leave(code) ==
    /\ Running
    /\ event' = code
    /\ UNCHANGED <<entries, sources, qmap, qorder, qcapacity, dmap, dorder, dcapacity,
                   call, qnew, dnew, load, state, answered>>

\* F2 or Ctrl-O.  io_ok: the preview file is written and the browser starts.
OpenInBrowser(code, io_ok) ==
    LET entry_idx == selected_entry_index(state) IN
    IF entry_idx = NoEntry
    THEN Unchanged(code, [state EXCEPT !.status_text = "OpenFailed"])
    ELSE \E r \in {get_or_load(dmap, dorder, dcapacity, entry_idx)} :
           Handled(code,
                   [state EXCEPT !.status_text = IF r.status = "Ok" /\ io_ok
                                                 THEN "Opened" ELSE "OpenFailed"],
                   NoQueryCall,
                   [state |-> state, idx |-> entry_idx, status |-> r.status,
                    text |-> r.text, fetches |-> r.fetches, map |-> r.map,
                    order |-> r.order])

PrevEntry ==
    Refreshed("Prev", [state EXCEPT !.selected = saturating_sub(@, 1)])

NextEntry ==
    IF state.selected + 1 < Len(state.result_indexes)
    THEN Refreshed("Next", [state EXCEPT !.selected = @ + 1])
    ELSE Unchanged("Next", state)

Backspace ==
    IF state.query # <<>>
    THEN Requeried("Backspace",
                   [state EXCEPT !.query = SubSeq(@, 1, Len(@) - 1), !.selected = 0])
    ELSE Unchanged("Backspace", state)

Char(ch) ==
    /\ Len(state.query) < MaxRawLen
    /\ Requeried("Char", [state EXCEPT !.query = Append(@, ch), !.selected = 0])

Up == Unchanged("Up", scroll_detail_up(state))

Down == Unchanged("Down", scroll_detail_down(state))

Home == Refreshed("Home", [state EXCEPT !.selected = 0])

End ==
    IF state.result_indexes # <<>>
    THEN Refreshed("End", [state EXCEPT !.selected = Len(state.result_indexes) - 1])
    ELSE Unchanged("End", state)

PageUp ==
    Refreshed("PageUp", [state EXCEPT !.selected = saturating_sub(@, PAGE_STEP)])

PageDown ==
    IF state.result_indexes # <<>>
    THEN Refreshed("PageDown",
                   [state EXCEPT !.selected =
                                    min(@ + PAGE_STEP, Len(state.result_indexes) - 1)])
    ELSE Unchanged("PageDown", state)

OtherEvent == Unchanged("Other", state)

TuiInit ==
    /\ \E files \in MdxDirs : \E store \in {load_from_dir(files)} :
          /\ store.status = "Ok"
          /\ entries = store.entries
          /\ sources = store.sources
    /\ InitCaches
    /\ qnew = NotRecorded(QCap) /\ dnew = NotRecorded(DCap)
    /\ answered = NotAnswered

TuiNext ==
    \/ \E code \in ExitKeys : Leave(code)
    \/ \E code \in {"F2", "CtrlO"}, io_ok \in BOOLEAN : OpenInBrowser(code, io_ok)
    \/ PrevEntry
    \/ NextEntry
    \/ Backspace
    \/ \E ch \in TypedChars : Char(ch)
    \/ Up
    \/ Down
    \/ Home
    \/ End
    \/ PageUp
    \/ PageDown
    \/ OtherEvent

TuiSpec == TuiInit /\ [][TuiNext]_vars

\* ------------------------------------------------------------------ load
\* load_store_with_prompt: the default directory is loaded; after a failed
\* load the user names another directory, until one loads.
Directories == MdxDirs \cup {<<>>}

LoadFromDir ==
    /\ load.status = "none"
    /\ \E store \in {load_from_dir(load.mdx_files)} :
          /\ load' = [load EXCEPT !.status = store.status,
                                  !.load_errors = store.load_errors]
          /\ entries' = store.entries
          /\ sources' = store.sources
    /\ UNCHANGED <<qmap, qorder, qcapacity, dmap, dorder, dcapacity, call, qnew, dnew,
                   state, event, answered>>

Prompt(files) ==
    /\ load.status \notin {"none", "Ok"}
    /\ load' = [NoLoad EXCEPT !.mdx_files = files]
    /\ UNCHANGED <<entries, sources, qmap, qorder, qcapacity, dmap, dorder, dcapacity,
                   call, qnew, dnew, state, event, answered>>

LoadInit ==
    /\ \E files \in Directories : load = [NoLoad EXCEPT !.mdx_files = files]
    /\ entries = <<>> /\ sources = <<>>
    /\ qmap = EmptyMap /\ qorder = <<>> /\ qcapacity = QCap
    /\ dmap = EmptyMap /\ dorder = <<>> /\ dcapacity = DCap
    /\ call = NoCall
    /\ qnew = NotRecorded(QCap) /\ dnew = NotRecorded(DCap)
    /\ answered = NotAnswered
    /\ state = SearchState_default /\ event = "none"

LoadNext ==
    \/ LoadFromDir
    \/ \E files \in Directories : Prompt(files)

LoadSpec == LoadInit /\ [][LoadNext]_vars

\* ------------------------------------------------------------------ full session
Init ==
    /\ \E files \in MdxDirs : \E store \in {load_from_dir(files)} :
          /\ store.status = "Ok"
          /\ entries = store.entries
          /\ sources = store.sources
    /\ InitCaches
    /\ qnew = NoNew /\ dnew = NoNew
    /\ answered = NotAnswered

Next ==
    \/ \E raw \in RawQueries : Query(raw)
    \/ \E entry_idx \in 0..Len(entries) : GetOrLoad(entry_idx)

Spec == Init /\ [][Next]_vars

\* ------------------------------------------------------------------ definition session
\* DictionaryStore has public fields: a caller may hand get_or_load any store,
\* also one whose entries share a (dict_idx, keyword_idx) or point outside
\* sources or keywords.
Texts == {"t1", "t2", NoContent}

AnyEntries ==
    UNION {[1..n -> {Entry(<<97>>, d, k) : d \in 0..MaxFiles, k \in 0..MaxKeywords}] :
             n \in 1..MaxEntries}

AnySources ==
    UNION {[1..n -> UNION {[1..m -> {Keyword(<<97>>, t) : t \in Texts}] :
                             m \in 0..MaxKeywords}] : n \in 0..MaxFiles}

DefinitionInit ==
    /\ entries \in AnyEntries
    /\ sources \in AnySources
    /\ InitCaches
    /\ qnew = NotRecorded(QCap) /\ dnew = NotRecorded(DCap)
    /\ answered = NotAnswered

DefinitionNext == \E entry_idx \in 0..Len(entries) : GetOrLoad(entry_idx)

DefinitionSpec == DefinitionInit /\ [][DefinitionNext]_vars

\* ------------------------------------------------------------------ insert alone
\* insert is private and query / get_or_load call it only for absent keys; its
\* branch for a present key is exercised by applying insert directly.
QInsert(key, value) ==
    \E r \in {QueryResultCache_insert(qmap, qorder, qcapacity, key, value)} :
    /\ qmap' = r.map
    /\ qorder' = r.order
    /\ qnew' = IF key \in DOMAIN qmap THEN qnew ELSE NoteNew(qnew, qcapacity, key)
    /\ call' = [NoCall EXCEPT !.op = "QueryResultCache::insert", !.raw = key,
                              !.result = value,
                              !.path = IF key \in DOMAIN qmap THEN "overwrite" ELSE "new"]
    /\ UNCHANGED <<entries, sources, qcapacity, dmap, dorder, dcapacity, dnew, load, state, event,
                   answered>>

DInsert(entry_idx, value) ==
    \E r \in {DefinitionCache_insert(dmap, dorder, dcapacity,
                                      DefinitionKey(entry_idx), value)} :
    /\ dmap' = r.map
    /\ dorder' = r.order
    /\ dnew' = IF DefinitionKey(entry_idx) \in DOMAIN dmap THEN dnew
               ELSE NoteNew(dnew, dcapacity, DefinitionKey(entry_idx))
    /\ call' = [NoCall EXCEPT !.op = "DefinitionCache::insert", !.idx = entry_idx,
                              !.text = value,
                              !.path = IF DefinitionKey(entry_idx) \in DOMAIN dmap
                                       THEN "overwrite" ELSE "new"]
    /\ UNCHANGED <<entries, sources, qmap, qorder, qcapacity, qnew, dcapacity, load, state, event,
                   answered>>

InsertKeys == StringsOver(WordChars, MaxRawLen) \ {<<>>}

InsertValues == {<<>>, <<0>>, <<1, 0>>}

InsertTexts == {"t1", "t2"}

InsertInit ==
    /\ entries = SingleSourceStore(<<<<97>>, <<98>>>>).entries
    /\ sources = SingleSourceStore(<<<<97>>, <<98>>>>).sources
    /\ InitCaches
    /\ qnew = NotRecorded(QCap) /\ dnew = NotRecorded(DCap)
    /\ answered = NotAnswered

InsertNext ==
    \/ \E key \in InsertKeys : \E value \in InsertValues : QInsert(key, value)
    \/ \E entry_idx \in Indexes : \E value \in InsertTexts : DInsert(entry_idx, value)

InsertSpec == InsertInit /\ [][InsertNext]_vars

\* ------------------------------------------------------------------ claims: search
ToSet(seq) == {seq[i] : i \in 1..Len(seq)}

NoDuplicates(seq) == \A i \in 1..Len(seq), j \in 1..Len(seq) : seq[i] = seq[j] => i = j

QueryNow(raw) == query(qmap, qorder, qcapacity, raw)

Needles == {normalize(raw) : raw \in RawQueries} \ {<<>>}

IsQueryCall == call.op = "query"

CallNeedle == normalize(call.raw)

\* C1: in every reachable cache state, for every raw query with a non-empty
\* normalized form, the set of indices query returns (hit, narrowed scan or
\* full scan) is the set a full-corpus search of the needle returns; so is
\* the set the last query returned.
C1_PrefixReuseSameSet ==
    /\ \A raw \in RawQueries :
          normalize(raw) # <<>> =>
              ToSet(QueryNow(raw).result) = ToSet(search(normalize(raw), None))
    /\ (IsQueryCall /\ CallNeedle # <<>>) =>
          ToSet(call.result) = ToSet(search(CallNeedle, None))

\* A narrowed scan that answered with some, not all, of its candidates.
C1_Witness ==
    /\ IsQueryCall /\ call.path = "narrowed"
    /\ call.result # <<>>
    /\ \E k \in DOMAIN qmap :
          /\ starts_with(CallNeedle, k) /\ k # CallNeedle
          /\ Len(call.result) < Len(qmap[k])

\* C2 (as claimed): when q is cached and q+c is not, query(q+c), computed by
\* prefix reuse, returns the list a full rescan with needle q+c returns, in
\* the same order.
C2_PrefixReuseSameOrder ==
    \A q \in DOMAIN qmap : \A c \in WordChars :
        LET qc == Append(q, c) IN
        (qc \notin DOMAIN qmap /\ qc \in Needles) =>
            QueryNow(qc).result = search(qc, None)

TierRank(index, needle) ==
    LET w == EntryAt(index).word_lower IN
    IF w = needle THEN 0 ELSE IF starts_with(w, needle) THEN 1 ELSE 2

RankedByTier(list, needle) ==
    \A i \in 1..Len(list), j \in 1..Len(list) :
        i < j => TierRank(list[i], needle) <= TierRank(list[j], needle)

\* C3: every list query returns for a non-empty needle, and every cached
\* list, has its exact matches before its prefix matches before its
\* contains matches, whatever the corpus positions.
C3_TierOrder ==
    /\ \A raw \in RawQueries :
          normalize(raw) # <<>> => RankedByTier(QueryNow(raw).result, normalize(raw))
    /\ \A k \in DOMAIN qmap : RankedByTier(qmap[k], k)
    /\ (IsQueryCall /\ CallNeedle # <<>>) => RankedByTier(call.result, CallNeedle)

\* A returned list whose better-tier entry sits later in the corpus.
C3_Witness ==
    /\ IsQueryCall /\ Len(call.result) >= 2
    /\ call.result[1] > call.result[2]
    /\ TierRank(call.result[1], CallNeedle) < TierRank(call.result[2], CallNeedle)

Scopes == {None} \cup {Some(qmap[k]) : k \in DOMAIN qmap}

Count(seq, x) == Cardinality({i \in 1..Len(seq) : seq[i] = x})

\* C4: for every needle and every scope (the full corpus or a cached list),
\* the three tiers are pairwise disjoint, exact holds the scanned entries
\* equal to the needle, prefix those starting with it and not equal, contains
\* those containing it and not starting with it, and the result holds exactly
\* the scanned entries that contain the needle, each as often as scanned.
C4_TierPartition ==
    \A needle \in Needles : \A candidates \in Scopes :
        LET scan == ScanOrder(candidates)
            ex == ToSet(TierOf(scan, needle, "exact"))
            pr == ToSet(TierOf(scan, needle, "prefix"))
            co == ToSet(TierOf(scan, needle, "contains"))
            res == search(needle, candidates)
            w(index) == EntryAt(index).word_lower
        IN  /\ ex \cap pr = {} /\ ex \cap co = {} /\ pr \cap co = {}
            /\ ex = {x \in ToSet(scan) : w(x) = needle}
            /\ pr = {x \in ToSet(scan) : starts_with(w(x), needle) /\ w(x) # needle}
            /\ co = {x \in ToSet(scan) :
                        contains(w(x), needle) /\ ~starts_with(w(x), needle)}
            /\ \A x \in Indexes :
                  Count(res, x) = IF contains(w(x), needle) THEN Count(scan, x) ELSE 0

\* A narrowed search over a cached list that dropped an entry and kept one.
C4_Witness ==
    \E needle \in Needles : \E k \in DOMAIN qmap :
        /\ search(needle, Some(qmap[k])) # <<>>
        /\ Len(search(needle, Some(qmap[k]))) < Len(qmap[k])

\* C5: in every reachable cache state, query(q) followed at once by query(q)
\* returns the same ordered list both times.
C5_Idempotent ==
    \A raw \in RawQueries :
        LET first == QueryNow(raw)
            second == query(first.map, first.order, qcapacity, raw)
        IN  second.result = first.result

\* A query answered from the cache with a non-empty list, its needle being the
\* key a miss stored last, in a cache filled to capacity.
C5_Witness ==
    /\ IsQueryCall /\ call.path = "hit" /\ call.result # <<>>
    /\ Len(qorder) = qcapacity
    /\ qorder[Len(qorder)] = CallNeedle

\* C8: in every reachable cache state, a raw query that is empty or only
\* whitespace returns the empty list and leaves map and eviction queue as
\* they were; the last such call left an empty result.
C8_BlankQueryNoEffect ==
    /\ \A raw \in RawQueries :
          (\A i \in 1..Len(raw) : is_whitespace(raw[i])) =>
              /\ QueryNow(raw).result = <<>>
              /\ QueryNow(raw).map = qmap
              /\ QueryNow(raw).order = qorder
    /\ (IsQueryCall /\ \A i \in 1..Len(call.raw) : is_whitespace(call.raw[i])) =>
          call.result = <<>>

\* A whitespace-only query made on a cache that holds keys.
C8_Witness ==
    /\ IsQueryCall /\ call.raw # <<>>
    /\ \A i \in 1..Len(call.raw) : is_whitespace(call.raw[i])
    /\ call.path = "empty" /\ call.result = <<>>
    /\ Len(qorder) = qcapacity

\* ------------------------------------------------------------------ claims: caches
KeySet(map) == DOMAIN map

EvictedFirstOnly(map, order, capacity, new) ==
    /\ new.n <= capacity =>
          /\ order = new.keys
          /\ KeySet(map) = ToSet(new.keys)
    /\ new.n = capacity + 1 =>
          /\ NoDuplicates(new.keys)
          /\ new.keys[1] \notin KeySet(map)
          /\ KeySet(map) = ToSet(Tail(new.keys))
          /\ Cardinality(KeySet(map)) = capacity
          /\ order = Tail(new.keys)

\* C6: from an empty cache of capacity N, while at most N new keys have been
\* inserted none is evicted, and once N + 1 distinct new keys have been
\* inserted (query misses, get_or_load loads) exactly the first-inserted key
\* is gone and the other N are present; in both caches.
C6_EvictsFirstInserted ==
    /\ EvictedFirstOnly(qmap, qorder, qcapacity, qnew)
    /\ EvictedFirstOnly(dmap, dorder, dcapacity, dnew)

\* Both caches have just taken their (capacity + 1)-th new key.
C6_Witness == qnew.n = qcapacity + 1 /\ dnew.n = dcapacity + 1

OverwriteFrame(map, order, after, key, value) ==
    /\ after.order = order
    /\ KeySet(after.map) = KeySet(map)
    /\ after.map[key] = value
    /\ \A k \in KeySet(map) \ {key} : after.map[k] = map[k]

\* C7: a step that inserts a key already present replaces that key's value
\* and nothing else: the key set and the eviction queue are as before and
\* every other key keeps its value; in both caches.
C7_OverwriteReplacesValueOnly ==
    [][ /\ \A key \in InsertKeys : \A value \in InsertValues :
              (key \in KeySet(qmap) /\ QInsert(key, value)) =>
                  OverwriteFrame(qmap, qorder, [map |-> qmap', order |-> qorder'],
                                 key, value)
        /\ \A entry_idx \in Indexes : \A value \in InsertTexts :
              (DefinitionKey(entry_idx) \in KeySet(dmap) /\ DInsert(entry_idx, value)) =>
                  OverwriteFrame(dmap, dorder, [map |-> dmap', order |-> dorder'],
                                 DefinitionKey(entry_idx), value) ]_vars

\* An overwrite of the oldest key of a full query cache with a new value.
C7_Witness ==
    /\ call.op = "QueryResultCache::insert" /\ call.path = "overwrite"
    /\ Len(qorder) = qcapacity /\ Len(qorder) >= 2
    /\ qorder[1] = call.raw
    /\ qmap[call.raw] = call.result
    /\ qmap[qorder[2]] # call.result

SameKey(i, j) ==
    /\ EntryAt(i).dict_idx = EntryAt(j).dict_idx
    /\ EntryAt(i).keyword_idx = EntryAt(j).keyword_idx

C10_FailedLoadNoEffect ==
    /\ \A i \in Indexes :
          LET r == get_or_load(dmap, dorder, dcapacity, i) IN
          (DefinitionKey(i) \notin KeySet(dmap) /\ fetch_definition(i).status # "Ok") =>
              /\ r.status = fetch_definition(i).status
              /\ r.status \in {"InvalidDictIndex", "InvalidKeywordIndex", "NoContent"}
              /\ r.map = dmap
              /\ r.order = dorder
              /\ r.fetches = 1
    /\ (call.op = "get_or_load" /\ call.path = "failed") =>
          /\ call.status \in {"InvalidDictIndex", "InvalidKeywordIndex", "NoContent"}
          /\ call.fetches = 1
          /\ DefinitionKey(call.idx) \notin KeySet(dmap)

\* A failed load on a cache that holds a definition.
C10_Witness ==
    /\ call.op = "get_or_load" /\ call.path = "failed"
    /\ call.status = "NoContent"
    /\ dorder # <<>>

\* C11: in every reachable cache state, get_or_load with an entry index at or
\* beyond the corpus length returns the invalid-index error, calls
\* fetch_definition zero times and leaves map and eviction queue as they
\* were; so did the last such call.
C11_InvalidIndexNoEffect ==
    /\ \A i \in Len(entries)..(Len(entries) + 1) :
          LET r == get_or_load(dmap, dorder, dcapacity, i) IN
          /\ r.status = "InvalidEntryIndex"
          /\ r.fetches = 0
          /\ r.map = dmap
          /\ r.order = dorder
    /\ (call.op = "get_or_load" /\ call.idx \notin Indexes) =>
          /\ call.status = "InvalidEntryIndex"
          /\ call.fetches = 0
          /\ call.path = "invalid"

\* An out-of-range index asked of a cache that holds a definition.
C11_Witness ==
    /\ call.op = "get_or_load" /\ call.idx = Len(entries)
    /\ call.status = "InvalidEntryIndex"
    /\ dorder # <<>>

\* C12: on the corpus cat, category, scatter (indices 0, 1, 2), the query
\* "cat" asked of an empty cache returns [0, 1, 2], and the query "cate" that
\* follows it, narrowed to the cached result of "cat", returns [1].
C12_CatThenCate ==
    /\ (qorder = <<cat>> /\ IsQueryCall /\ CallNeedle = cat) =>
          /\ call.path \in {"full", "hit"}
          /\ call.result = <<0, 1, 2>>
          /\ qmap[cat] = <<0, 1, 2>>
    /\ (qorder = <<cat, cate>> /\ IsQueryCall /\ CallNeedle = cate) =>
          /\ call.path \in {"narrowed", "hit"}
          /\ call.result = <<1>>
          /\ qmap[cate] = <<1>>
    /\ (qorder = <<>>) =>
          /\ QueryNow(cat).result = <<0, 1, 2>>
          /\ LET first == QueryNow(cat) IN
             query(first.map, first.order, qcapacity, cate).result = <<1>>

\* "cat" was asked of the empty cache and "cate" right after it.
C12_Witness ==
    /\ qorder = <<cat, cate>>
    /\ IsQueryCall /\ call.raw = cate /\ call.path = "narrowed"
    /\ call.result = <<1>>

OpenedAt(files) == {i \in 1..Len(files) : files[i].opened}

Usable(files) ==
    UNION {{<<i, k>> : k \in {k \in 1..Len(files[i].keywords) :
                                trim(files[i].keywords[k].key_text) # <<>>}} :
             i \in OpenedAt(files)}

FailedAt(files) == SelectSeq([i \in 1..Len(files) |-> i], LAMBDA i : ~files[i].opened)

\* C13: a finished load_from_dir has recorded every source that failed to
\* open and skipped it; it failed exactly when no entry was left (every
\* source failed, or the opened ones held only words that trim to nothing),
\* and otherwise it succeeded with one source per opened file and one entry
\* per non-blank keyword of the opened files.
C13_LoadSkipsFailedSources ==
    load.status # "none" =>
        LET files == load.mdx_files IN
        /\ load.load_errors = FailedAt(files)
        /\ (load.status = "Ok") <=> (Usable(files) # {})
        /\ load.status # "Ok" => (OpenedAt(files) = {} \/ Usable(files) = {})
        /\ load.status = "Ok" =>
              /\ Len(sources) = Cardinality(OpenedAt(files))
              /\ Len(entries) = Cardinality(Usable(files))
              /\ \A p \in Usable(files) : \E n \in 1..Len(entries) :
                    /\ entries[n].word = trim(files[p[1]].keywords[p[2]].key_text)
                    /\ entries[n].keyword_idx = p[2] - 1
                    /\ sources[entries[n].dict_idx + 1] = files[p[1]].keywords

\* A load that succeeded although one of its sources failed to open.
C13_Witness ==
    /\ load.status = "Ok"
    /\ load.load_errors # <<>>
    /\ entries # <<>>

\* C14: the corpus of every successful load is in ascending word_lower order
\* and holds no entry whose word trims to the empty string.
C14_LoadedCorpusSorted ==
    load.status = "Ok" =>
        /\ IsSorted([n \in 1..Len(entries) |-> entries[n].word_lower])
        /\ \A n \in 1..Len(entries) : trim(entries[n].word) # <<>>

\* A successful load that moved a later source's entry in front of an earlier
\* source's.
C14_Witness ==
    /\ load.status = "Ok"
    /\ Len(entries) >= 2
    /\ entries[1].dict_idx > entries[2].dict_idx

RefreshKeys == {"Prev", "Next", "Backspace", "Char", "Home", "End", "PageUp", "PageDown"}

\* C15: when the handler of a key event had refresh_detail ask get_or_load
\* and get an error, the event loop is still running and takes the next key
\* event, the detail text is the error text and detail_entry_idx is None.
C15_FailedLoadKeepsSession ==
    (event \in RefreshKeys /\ call.op = "key" /\ call.status \notin {"none", "Ok"}) =>
        /\ Running
        /\ state.detail_text = ErrorText(call.status)
        /\ state.detail_entry_idx = NoEntry
        /\ ENABLED Backspace
        /\ ENABLED Home
        /\ ENABLED Leave("Esc")

\* A definition was on display and the next entry's load failed.
C15_Witness ==
    /\ event = "Next" /\ call.op = "key" /\ call.status = "NoContent"
    /\ state.detail_text.kind = "Error"
    /\ state.selected = 1

CachedPrefixLengths(needle) ==
    {n \in 1..(Len(needle) - 1) : SubSeq(needle, 1, n) \in DOMAIN qmap}

LongestCachedPrefix(needle) ==
    SubSeq(needle, 1, CHOOSE n \in CachedPrefixLengths(needle) :
                         \A m \in CachedPrefixLengths(needle) : m <= n)

\* C16: in every reachable cache state, a query that misses scans the cached
\* value of the longest proper non-empty prefix of the needle that is a cache
\* key, whatever shorter prefixes are cached too, and scans the whole corpus
\* when no proper prefix is cached.
C16_LongestCachedPrefix ==
    \A needle \in PrefixQueries : needle \notin DOMAIN qmap =>
        LET r == QueryNow(needle) IN
        IF CachedPrefixLengths(needle) = {}
        THEN /\ find_longest_prefix_result(qmap, needle) = None
             /\ r.path = "full"
             /\ r.result = search(needle, None)
        ELSE /\ find_longest_prefix_result(qmap, needle)
                   = Some(qmap[LongestCachedPrefix(needle)])
             /\ r.path = "narrowed"
             /\ r.result = search(needle, Some(qmap[LongestCachedPrefix(needle)]))

\* A three-character needle was narrowed while its one- and two-character
\* prefixes were both cached, with different results.
C16_Witness ==
    /\ IsQueryCall /\ call.path = "narrowed" /\ Len(call.raw) = 3
    /\ qorder[Len(qorder)] = call.raw
    /\ CachedPrefixLengths(call.raw) = {1, 2}
    /\ qmap[SubSeq(call.raw, 1, 1)] # qmap[SubSeq(call.raw, 1, 2)]
    /\ call.result = search(call.raw, Some(qmap[SubSeq(call.raw, 1, 2)]))

\* C17: in every reachable state, a query whose needle is a key of the search
\* cache and a get_or_load whose key is a key of the definition cache return
\* the stored value and leave that cache's map and eviction queue exactly as
\* they were; the resolver is not called.
C17_HitIsReadOnly ==
    /\ \A raw \in RawQueries : normalize(raw) \in DOMAIN qmap =>
          LET r == QueryNow(raw) IN
          /\ r.path = "hit"
          /\ r.result = qmap[normalize(raw)]
          /\ r.map = qmap
          /\ r.order = qorder
    /\ \A i \in Indexes :
          [dict_idx |-> EntryAt(i).dict_idx, keyword_idx |-> EntryAt(i).keyword_idx]
              \in DOMAIN dmap =>
          LET r == get_or_load(dmap, dorder, dcapacity, i) IN
          /\ r.path = "hit"
          /\ r.status = "Ok"
          /\ r.text = dmap[[dict_idx |-> EntryAt(i).dict_idx,
                            keyword_idx |-> EntryAt(i).keyword_idx]]
          /\ r.fetches = 0
          /\ r.map = dmap
          /\ r.order = dorder

\* A hit on the oldest key of a full search cache: the key is still the
\* oldest, next to be evicted.
C17_Witness ==
    /\ IsQueryCall /\ call.path = "hit"
    /\ Len(qorder) = qcapacity /\ qcapacity >= 2
    /\ qorder[1] = CallNeedle
    /\ dorder # <<>>

ScannedBefore(scan, x, y) ==
    \E p \in 1..Len(scan), q \in 1..Len(scan) : p < q /\ scan[p] = x /\ scan[q] = y

\* C18: for every needle and every scope, two indices of the result that lie
\* in the same tier stand in the order in which the scan met them: ascending
\* corpus index for a full scan, the candidate list's order for a narrowed one.
C18_TierKeepsScanOrder ==
    \A needle \in Needles : \A candidates \in Scopes :
        LET result == search(needle, candidates) IN
        \A i \in 1..Len(result), j \in 1..Len(result) :
            (i < j /\ TierRank(result[i], needle) = TierRank(result[j], needle)) =>
                IF candidates.some
                THEN ScannedBefore(candidates.v, result[i], result[j])
                ELSE result[i] < result[j]

\* A narrowed query returned two entries of one tier in the candidate list's
\* order, which is not ascending corpus order.
C18_Witness ==
    /\ IsQueryCall /\ call.path = "narrowed"
    /\ \E i \in 1..Len(call.result), j \in 1..Len(call.result) :
          /\ i < j
          /\ TierRank(call.result[i], CallNeedle) = TierRank(call.result[j], CallNeedle)
          /\ call.result[i] > call.result[j]

\* One step of a cache, read off its map and its queue: the keys that left
\* are the n oldest of the queue, the queue keeps the others in their order,
\* and a new key, if any, stands behind them.
FifoStep(map, order, map_after, order_after) ==
    LET gone == KeySet(map) \ KeySet(map_after)
        added == KeySet(map_after) \ KeySet(map)
    IN  /\ Cardinality(added) <= 1
        /\ gone # {} => added # {}
        /\ \E n \in 0..Len(order) :
              /\ gone = ToSet(SubSeq(order, 1, n))
              /\ order_after = SubSeq(order, n + 1, Len(order))
                                  \o (IF added = {} THEN <<>>
                                      ELSE <<CHOOSE k \in added : TRUE>>)

\* C19: in every step of either cache, over any sequence of query and
\* get_or_load calls, the keys evicted are the oldest of the keys present (in
\* the order of their latest insertion as new keys): no key leaves while a
\* key inserted before it stays, the remaining keys keep their order and a
\* new key becomes the youngest.
C19_EvictionIsFifo ==
    [][/\ FifoStep(qmap, qorder, qmap', qorder')
       /\ FifoStep(dmap, dorder, dmap', dorder')]_vars

\* Both caches have evicted more than once: each has taken at least two new
\* keys beyond its capacity and is full.
C19_Witness ==
    /\ qnew = NotRecorded(qcapacity) /\ Len(qorder) = qcapacity
    /\ dnew = NotRecorded(dcapacity) /\ Len(dorder) = dcapacity

\* C20: in every reachable state (after every completed query or
\* get_or_load) each cache holds at most capacity keys, in map and in queue,
\* and each capacity is the one given at construction.
C20_SizeWithinCapacity ==
    /\ Cardinality(KeySet(qmap)) <= qcapacity
    /\ Len(qorder) <= qcapacity
    /\ Cardinality(KeySet(dmap)) <= dcapacity
    /\ Len(dorder) <= dcapacity
    /\ qcapacity = QCap
    /\ dcapacity = DCap

\* The last call stored a new key in a cache that was full.
C20_Witness ==
    /\ call.path \in {"full", "narrowed", "loaded"}
    /\ qnew.n >= qcapacity + 1 /\ Cardinality(KeySet(qmap)) = qcapacity
    /\ dnew.n >= dcapacity + 1 /\ Cardinality(KeySet(dmap)) = dcapacity

OpenedInOrder(files) == SelectSeq([i \in 1..Len(files) |-> i], LAMBDA i : files[i].opened)

\* C21: in the corpus of every successful load, sources holds the opened
\* files in directory order (a file that failed to open takes no place), and
\* every entry's dict_idx is an index into sources whose source holds, at the
\* entry's keyword_idx, the keyword the entry's word was trimmed from.
C21_DictIdxNamesSupplier ==
    load.status = "Ok" =>
        /\ Len(sources) = Len(OpenedInOrder(load.mdx_files))
        /\ \A r \in 1..Len(sources) :
              sources[r] = load.mdx_files[OpenedInOrder(load.mdx_files)[r]].keywords
        /\ \A n \in 1..Len(entries) :
              /\ entries[n].dict_idx \in 0..(Len(sources) - 1)
              /\ entries[n].keyword_idx
                    \in 0..(Len(sources[entries[n].dict_idx + 1]) - 1)
              /\ trim(sources[entries[n].dict_idx + 1][entries[n].keyword_idx + 1].key_text)
                    = entries[n].word

\* The first file of the directory failed to open and the second supplied an
\* entry, which names source 0.
C21_Witness ==
    /\ load.status = "Ok"
    /\ Len(load.mdx_files) >= 2
    /\ ~load.mdx_files[1].opened
    /\ entries # <<>>
    /\ entries[1].dict_idx = 0

\* C22: every key of the search cache is non-empty, trimmed and lowercase,
\* and for any two raw queries with the same non-empty normalized form, the
\* second asked right after the first is a hit that returns the first's list
\* and leaves map and queue as the first left them.
C22_KeysAreNormalized ==
    /\ \A k \in DOMAIN qmap :
          /\ k # <<>>
          /\ trim(k) = k
          /\ to_lowercase(k) = k
          /\ \A n \in 1..Len(k) : ~(k[n] \in 65..90)
    /\ \A r1 \in RawQueries, r2 \in RawQueries :
          (trim(to_lowercase(r1)) = trim(to_lowercase(r2)) /\ trim(r1) # <<>>) =>
              LET first == QueryNow(r1)
                  second == query(first.map, first.order, qcapacity, r2)
              IN  /\ second.path = "hit"
                  /\ second.result = first.result
                  /\ second.map = first.map
                  /\ second.order = first.order

\* A raw query with a capital and a blank hit the key stored for its
\* normalized form.
C22_Witness ==
    /\ IsQueryCall /\ call.path = "hit"
    /\ call.raw \in {<<32, 66>>, <<66, 32>>}
    /\ <<98>> \in DOMAIN qmap
    /\ call.result = qmap[<<98>>]

\* C23: whenever a needle is asked again in a session, after any other
\* queries and evictions, query returns the ordered list it returned the
\* first time.
C23_HistoryIndependent ==
    (IsQueryCall /\ call.path # "empty" /\ CallNeedle \in DOMAIN answered.lists) =>
        call.result = answered.lists[CallNeedle]

HasContent(d, k) ==
    /\ d \in 0..(Len(sources) - 1)
    /\ k \in 0..(Len(sources[d + 1]) - 1)
    /\ sources[d + 1][k + 1].definition # NoContent

\* C24: every text the definition cache holds under (dict_idx, keyword_idx)
\* is the definition that source holds for that keyword, and every
\* get_or_load that succeeds, served from the cache or loaded, returns the
\* definition of the keyword its entry names; so did the last call.
C24_DefinitionCacheCoherent ==
    /\ \A key \in DOMAIN dmap :
          /\ HasContent(key.dict_idx, key.keyword_idx)
          /\ dmap[key] = sources[key.dict_idx + 1][key.keyword_idx + 1].definition
    /\ \A i \in Indexes :
          LET r == get_or_load(dmap, dorder, dcapacity, i) IN
          r.status = "Ok" =>
              /\ HasContent(EntryAt(i).dict_idx, EntryAt(i).keyword_idx)
              /\ r.text = sources[EntryAt(i).dict_idx + 1][EntryAt(i).keyword_idx + 1].definition
    /\ (call.op = "get_or_load" /\ call.status = "Ok") =>
          /\ HasContent(EntryAt(call.idx).dict_idx, EntryAt(call.idx).keyword_idx)
          /\ call.text = sources[EntryAt(call.idx).dict_idx + 1]
                                [EntryAt(call.idx).keyword_idx + 1].definition

\* Two entries with the same keyword index in different sources were asked
\* one after the other, and each got its own source's definition.
C24_Witness ==
    /\ call.op = "get_or_load" /\ call.path = "loaded"
    /\ call.prev_idx \in Indexes \ {call.idx}
    /\ call.prev_text # call.text
    /\ EntryAt(call.prev_idx).keyword_idx = EntryAt(call.idx).keyword_idx
    /\ EntryAt(call.prev_idx).dict_idx # EntryAt(call.idx).dict_idx

InRangeOnce(list) ==
    /\ \A n \in 1..Len(list) : list[n] \in 0..(Len(entries) - 1)
    /\ \A n \in 1..Len(list), m \in 1..Len(list) : n # m => list[n] # list[m]

\* C25: after any sequence of queries, every list the search cache holds,
\* every list query would return next and the list it returned last hold only
\* indices below the corpus length, none of them twice.
C25_IndicesInRangeOnce ==
    /\ \A k \in DOMAIN qmap : InRangeOnce(qmap[k])
    /\ \A raw \in RawQueries : InRangeOnce(QueryNow(raw).result)
    /\ IsQueryCall => InRangeOnce(call.result)

\* A narrowed scan looked up every entry of a two-entry corpus through the
\* cached list and kept both.
C25_Witness ==
    /\ IsQueryCall /\ call.path = "narrowed"
    /\ Len(entries) = 2
    /\ Len(call.result) = 2
    /\ qmap[CallNeedle] = call.result

\* C26: after any sequence of key events, selected is below the length of
\* result_indexes when that list is not empty and 0 when it is, so the
\* lookup of selected_entry_index stays inside the list.
C26_SelectedInBounds ==
    /\ state.result_indexes # <<>> =>
          /\ state.selected >= 0
          /\ state.selected < Len(state.result_indexes)
          /\ state.selected + 1 \in DOMAIN state.result_indexes
    /\ state.result_indexes = <<>> => state.selected = 0

\* PageDown moved the selection from the first to the last of two results.
C26_Witness ==
    /\ event = "PageDown"
    /\ Len(state.result_indexes) = 2
    /\ state.selected = 1
    /\ state.detail_entry_idx = state.result_indexes[2]

QueueIsKeySet(map, order) ==
    /\ {order[n] : n \in 1..Len(order)} = DOMAIN map
    /\ Len(order) = Cardinality(DOMAIN map)
    /\ \A n \in 1..Len(order), m \in 1..Len(order) : order[n] = order[m] => n = m

\* C27: after any sequence of inserts, of new keys and of keys already
\* present, each cache's eviction queue holds exactly the keys of its map,
\* each key once.
C27_QueueHoldsMapKeys ==
    /\ QueueIsKeySet(qmap, qorder)
    /\ QueueIsKeySet(dmap, dorder)

\* The definition cache, full, has just taken a new text for a key it held,
\* next to a full search cache.
C27_Witness ==
    /\ call.op = "DefinitionCache::insert" /\ call.path = "overwrite"
    /\ Len(dorder) = dcapacity
    /\ Len(qorder) = qcapacity
    /\ dmap[dorder[1]] = call.text

====
